---- MODULE Spec2Model ----
(***************************************************************************)
(* A model of the water-balloon simulation of src/src/main.rs: the frame   *)
(* loop of main (particles, bullets, exploded, initialized), the layout    *)
(* generator, the spring-damper force pass and the particle and bullet     *)
(* integrators.                                                            *)
(*                                                                         *)
(* Numbers.  The program computes in f32.  The model computes in fixed     *)
(* point: a length is an integer number of 1/F pixels, a velocity is in    *)
(* 1/F pixels per second, a frame time is an integer number of 1/TimeDen   *)
(* seconds, and a dimensionless factor (cosine, sine, unit direction) is   *)
(* an integer number of 1/UnitScale.  Quotients round to nearest (RDiv),   *)
(* the square root rounds down.  The one f32 value with no fixed-point     *)
(* counterpart that the program produces, NaN (the normalized zero         *)
(* vector), is the value NaN, handled by the F* operators as IEEE-754      *)
(* does: arithmetic on it yields NaN, every comparison with it is false.   *)
(***************************************************************************)
EXTENDS Integers, Sequences, FiniteSets

VARIABLES
    particles,    \* main: Vec<Particle>
    bullets,      \* main: Vec<Bullet> (as retained at the end of the frame)
    exploded,     \* main: exploded
    initialized,  \* main: initialized
    screen,       \* <<screen_width(), screen_height()>> in pixels
    stepped,      \* the bullets after the frame's update loop, before retain
    clock,        \* elapsed time: the sum of the frame times so far
    fired,        \* number of mouse clicks so far
    lateHit,      \* history: a bullet overlapped a particle in a frame that began exploded
    phase,        \* which run this is and how far it got
    call          \* the arguments of the function under study (function runs)

vars == <<particles, bullets, exploded, initialized, screen, stepped, clock,
          fired, lateHit, phase, call>>

----------------------------------------------------------------------------
(* Resolution and horizon of the model *)

F == 10
TimeDen == 10
UnitScale == 1000
MaxTime == 11
MaxFires == 2
FieldCount == 9

(* Program constants *)

PARTICLE_RADIUS == 3
PARTICLE_COUNT == 1000
BALLOON_RADIUS == 60
REST_LENGTH == 6
STIFFNESS_AFTER == 300
DAMPING_AFTER == 2
GRAVITY == <<0, 500 * F>>
ReboundNum == -3
ReboundDen == 10
BulletSpeed == 800
BulletRadius == 5
PiNum == 355
PiDen == 113

----------------------------------------------------------------------------
(* Arithmetic *)

NaN == -2000000000

Abs(a) == IF a < 0 THEN -a ELSE a

Max(a, b) == IF a >= b THEN a ELSE b

\* a / b rounded to the nearest integer, halves away from zero (b > 0)
RDiv(a, b) == IF a >= 0 THEN (2 * a + b) \div (2 * b)
                        ELSE -((2 * (-a) + b) \div (2 * b))

\* Newton's iteration for the square root of n from x >= sqrt(n), x > 0
RECURSIVE SqrtFrom(_, _)
SqrtFrom(n, x) ==
    LET y == (x + n \div x) \div 2
    IN  IF y >= x THEN x ELSE SqrtFrom(n, y)

\* the square root of n, rounded down; hi >= sqrt(n)
Sqrt(n, hi) == IF n = 0 THEN 0 ELSE SqrtFrom(n, hi)

FAdd(a, b) == IF a = NaN \/ b = NaN THEN NaN ELSE a + b
FLt(a, b) == a # NaN /\ b # NaN /\ a < b
FGt(a, b) == a # NaN /\ b # NaN /\ a > b
\* a * n / d for a length or velocity a and a fixed-point factor n / d
FScale(a, n, d) == IF a = NaN \/ n = NaN THEN NaN ELSE RDiv(a * n, d)

VAdd(u, v) == <<FAdd(u[1], v[1]), FAdd(u[2], v[2])>>
VSub(u, v) == <<FAdd(u[1], -v[1]), FAdd(u[2], -v[2])>>
VNeg(u) == <<-u[1], -u[2]>>
VScale(u, n, d) == <<FScale(u[1], n, d), FScale(u[2], n, d)>>
Dot(u, v) == u[1] * v[1] + u[2] * v[2]
ZERO == <<0, 0>>
IsNaNVec(u) == u[1] = NaN \/ u[2] = NaN

\* Vec2::length; a long vector is measured in coarser units, which keeps the
\* sum of squares within 32-bit integers
Length(u) ==
    IF IsNaNVec(u) THEN NaN
    ELSE LET k == 1 + Max(Abs(u[1]), Abs(u[2])) \div 30000
             c == <<u[1] \div k, u[2] \div k>>
         IN  k * Sqrt(Dot(c, c), Abs(c[1]) + Abs(c[2]))

\* Vec2::normalize: self * (1 / length); the zero vector gives 0 * inf = NaN
Normalize(u) ==
    LET len == Length(u)
    IN  IF len = NaN \/ len = 0 THEN <<NaN, NaN>>
        ELSE <<RDiv(u[1] * UnitScale, len), RDiv(u[2] * UnitScale, len)>>

\* Vec2::distance
Distance(u, v) == Length(VSub(u, v))

(* Trigonometry on angles in 1/UnitScale radians *)

TwoPi == (2 * PiNum * UnitScale) \div PiDen
HalfTurn == TwoPi \div 2
QuarterTurn == TwoPi \div 4

\* sin x for 0 <= x <= pi/2: x - x^3/3! + x^5/5! - x^7/7! + x^9/9!
SinQ(x) ==
    LET x2 == RDiv(x * x, UnitScale)
        t3 == RDiv(x * x2, 6 * UnitScale)
        t5 == RDiv(t3 * x2, 20 * UnitScale)
        t7 == RDiv(t5 * x2, 42 * UnitScale)
        t9 == RDiv(t7 * x2, 72 * UnitScale)
    IN  x - t3 + t5 - t7 + t9

\* f32::sin for 0 <= t < 2 pi
Sin(t) ==
    IF t <= QuarterTurn THEN SinQ(t)
    ELSE IF t <= HalfTurn THEN SinQ(HalfTurn - t)
    ELSE IF t <= HalfTurn + QuarterTurn THEN -SinQ(t - HalfTurn)
    ELSE -SinQ(TwoPi - t)

\* f32::cos for 0 <= t < 2 pi
Cos(t) == Sin((t + QuarterTurn) % TwoPi)

----------------------------------------------------------------------------
(* Particle *)

\* Particle::new
ParticleNew(pos) == [position |-> pos, velocity |-> ZERO, force |-> ZERO]

\* Particle::apply_force
ApplyForce(p, f) == [p EXCEPT !.force = VAdd(p.force, f)]

\* Particle::reset_force
ResetForce(p) == [p EXCEPT !.force = ZERO]

\* Particle::apply_gravity
ApplyGravity(p) == ApplyForce(p, GRAVITY)

\* the ground contact of Particle::update; h is screen_height() in 1/F pixels
GroundContact(p, h) ==
    IF p.position[2] + PARTICLE_RADIUS * F > h
    THEN [p EXCEPT !.position = <<p.position[1], h - PARTICLE_RADIUS * F>>,
                   !.velocity = <<p.velocity[1],
                                  RDiv(p.velocity[2] * ReboundNum, ReboundDen)>>]
    ELSE p

ContactThenIntegrate(p, dt, h) ==
    LET q == GroundContact(p, h)
        v == VAdd(q.velocity, VScale(q.force, dt, TimeDen))
        x == VAdd(q.position, VScale(v, dt, TimeDen))
    IN  ResetForce([q EXCEPT !.velocity = v, !.position = x])

\* Particle::update: semi-implicit Euler, then the ground contact
ParticleUpdate(p, dt, h) ==
    LET v == VAdd(p.velocity, VScale(p.force, dt, TimeDen))
        x == VAdd(p.position, VScale(v, dt, TimeDen))
    IN  GroundContact(ResetForce([p EXCEPT !.velocity = v, !.position = x]), h)

----------------------------------------------------------------------------
(* generate_spherical_particles *)

PointsInLayerNoFloor(r) ==
    (2 * PiNum * r * 10) \div (PiDen * PARTICLE_RADIUS * 25 * F)

\* points_in_layer: ((2 pi r) / (PARTICLE_RADIUS * 2.5)).max(6.0) as usize
PointsInLayer(r) ==
    Max((2 * PiNum * r * 10) \div (PiDen * PARTICLE_RADIUS * 25 * F), 6)

\* the i-th of n points of the ring of radius r around center
RingPoint(center, r, i, n) ==
    LET theta == (i * TwoPi) \div n
    IN  VAdd(center, <<RDiv(r * Cos(theta), UnitScale),
                       RDiv(r * Sin(theta), UnitScale)>>)

\* the for loop: push points i, i+1, ... of the ring until it or count is full
RECURSIVE FillLayer(_, _, _, _, _, _)
FillLayer(ps, center, count, r, i, n) ==
    IF i >= n \/ Len(ps) >= count THEN ps
    ELSE FillLayer(Append(ps, ParticleNew(RingPoint(center, r, i, n))),
                   center, count, r, i + 1, n)

\* the while loop, entered with ring radius r (1/F pixels)
RECURSIVE GenerateFrom(_, _, _, _, _)
GenerateFrom(ps, center, count, radius, r) ==
    IF Len(ps) >= count THEN ps
    ELSE LET filled == FillLayer(ps, center, count, r, 0, PointsInLayer(r))
             next == r + PARTICLE_RADIUS * 2 * F
         IN  IF next > radius * F THEN filled
             ELSE GenerateFrom(filled, center, count, radius, next)

\* generate_spherical_particles(center, count, radius); radius in pixels
Generate(center, count, radius) == GenerateFrom(<<>>, center, count, radius, 0)

----------------------------------------------------------------------------
(* Bullet *)

\* Bullet::new; age is a history field: the frame time applied to the bullet
BulletNew(start, target) ==
    LET dir == Normalize(VSub(target, start))
    IN  [position |-> start,
         velocity |-> VScale(dir, BulletSpeed * F, UnitScale),
         radius |-> BulletRadius * F,
         active |-> TRUE,
         age |-> 0]

OutOfScreenClosed(pos, w, h) ==
    ~(FGt(pos[1], 0) /\ FLt(pos[1], w) /\ FGt(pos[2], 0) /\ FLt(pos[2], h))

\* the out-of-screen test of Bullet::update; w, h in 1/F pixels
OutOfScreen(pos, w, h) ==
    FLt(pos[1], 0) \/ FGt(pos[1], w) \/ FLt(pos[2], 0) \/ FGt(pos[2], h)

\* Bullet::update
BulletUpdate(b, dt, w, h) ==
    LET pos == VAdd(b.position, VScale(b.velocity, dt, TimeDen))
    IN  [b EXCEPT !.position = pos,
                  !.active = IF OutOfScreen(pos, w, h) THEN FALSE ELSE b.active,
                  !.age = b.age + dt]

\* Bullet::collides_with
CollidesWith(b, p) ==
    FLt(Distance(b.position, p.position), b.radius + PARTICLE_RADIUS * F)

----------------------------------------------------------------------------
(* apply_spring_forces *)

\* the force the loop body computes for the pair (a, b) = (particles[i],
\* particles[j]), i < j: applied to a, and negated to b
PairForce(a, b) ==
    LET delta == VSub(b.position, a.position)
        dist == Length(delta)
    IN  IF dist < REST_LENGTH * 2 * F /\ dist * 100 > F
        THEN LET dir == Normalize(delta)
                 x == dist - REST_LENGTH * F
                 f_spring == VScale(dir, STIFFNESS_AFTER * x, UnitScale)
                 v_rel == VSub(b.velocity, a.velocity)
                 f_damp == VScale(dir, RDiv(Dot(v_rel, dir), UnitScale) * DAMPING_AFTER,
                                  UnitScale)
             IN  VAdd(f_spring, f_damp)
        ELSE ZERO

PairTermSwapped(ps, k, m) ==
    IF k < m THEN VNeg(PairForce(ps[k], ps[m]))
    ELSE IF m < k THEN PairForce(ps[m], ps[k])
    ELSE ZERO

\* what the pair of particles[k] and particles[m] adds to particles[k].force
PairTerm(ps, k, m) ==
    IF k < m THEN PairForce(ps[k], ps[m])
    ELSE IF m < k THEN VNeg(PairForce(ps[m], ps[k]))
    ELSE ZERO

\* the sum over m = 1 .. n of PairTerm(ps, k, m)
RECURSIVE SpringSum(_, _, _)
SpringSum(ps, k, n) ==
    IF n = 0 THEN ZERO ELSE VAdd(SpringSum(ps, k, n - 1), PairTerm(ps, k, n))

\* apply_spring_forces: positions and velocities are read only, so each
\* particle ends with the sum of its pairs' forces added to its force
ApplySpringForces(ps) ==
    [k \in DOMAIN ps |-> ApplyForce(ps[k], SpringSum(ps, k, Len(ps)))]

----------------------------------------------------------------------------
(* main: one iteration of the frame loop *)

ScreenW == screen[1] * F
ScreenH == screen[2] * F

\* vec2(screen_width() / 2.0, screen_height() / 2.5)
FieldCenter == <<RDiv(ScreenW, 2), RDiv(ScreenH * 10, 25)>>

\* vec2(screen_width() / 2.0, screen_height())
LaunchOrigin == <<RDiv(ScreenW, 2), ScreenH>>

NoClick == <<>>

\* if !initialized { particles = generate_spherical_particles(..) }
InitField(ps) ==
    IF initialized THEN ps ELSE Generate(FieldCenter, FieldCount, BALLOON_RADIUS)

\* if is_mouse_button_pressed(..) { bullets.push(Bullet::new(..)) }
FireBullets(bs, click) ==
    IF click = NoClick THEN bs ELSE Append(bs, BulletNew(LaunchOrigin, click))

\* bullet.update(dt) for every bullet of the loop
StepBullets(bs, dt) ==
    [i \in DOMAIN bs |-> BulletUpdate(bs[i], dt, ScreenW, ScreenH)]

\* particles.iter().any(|p| bullet.collides_with(p))
AnyCollides(b, ps) == \E j \in DOMAIN ps : CollidesWith(b, ps[j])

ImpactThisFrame(bs, ps, flag) == \E i \in DOMAIN bs : AnyCollides(bs[i], ps)

\* exploded after the bullet loop over bs
Impact(bs, ps, flag) == flag \/ \E i \in DOMAIN bs : AnyCollides(bs[i], ps)

\* the body of if exploded { .. }: gravity, apply_spring_forces, update
Physics(ps, dt) ==
    LET g == [k \in DOMAIN ps |-> ApplyGravity(ps[k])]
        s == ApplySpringForces(g)
    IN  [k \in DOMAIN ps |-> ParticleUpdate(s[k], dt, ScreenH)]

SimulateAlways(ps, dt, flag) == Physics(ps, dt)

\* if exploded { .. }
Simulate(ps, dt, flag) == IF flag THEN Physics(ps, dt) ELSE ps

IsActive(b) == b.active

RetainAll(bs) == bs

\* bullets.retain(|b| b.active)
Retain(bs) == SelectSeq(bs, IsActive)

\* frame times (1/TimeDen s) and mouse clicks (1/F pixels) the loop is driven
\* with.  The second viewport is narrow enough for the field of FieldCount
\* particles (6 pixels across) to reach its edge, as the field of
\* PARTICLE_COUNT particles (60 pixels across) does in a 160 x 160 window.
FrameTimes == {1, 5, 10}
Viewports == {<<800, 800>>, <<10, 130>>}
Clicks == {<<RDiv(ScreenW, 2), 0>>, LaunchOrigin, <<0, RDiv(ScreenH * 10, 25)>>}

Tick(dt, click) ==
    /\ phase = "loop"
    /\ clock + dt <= MaxTime
    /\ click # NoClick => fired < MaxFires
    /\ LET field == InitField(particles)
           upd == StepBullets(FireBullets(bullets, click), dt)
           flag == Impact(upd, field, exploded)
       IN  /\ particles' = Simulate(field, dt, flag)
           /\ exploded' = flag
           /\ stepped' = upd
           /\ bullets' = Retain(upd)
           /\ lateHit' = (lateHit \/ (exploded /\ Impact(upd, field, FALSE)))
    /\ initialized' = TRUE
    /\ clock' = clock + dt
    /\ fired' = IF click = NoClick THEN fired ELSE fired + 1
    /\ UNCHANGED <<screen, phase, call>>

Frame == \E dt \in FrameTimes : \E click \in Clicks \cup {NoClick} : Tick(dt, click)

NoCall == <<>>

Init ==
    /\ particles = <<>>
    /\ bullets = <<>>
    /\ exploded = FALSE
    /\ initialized = FALSE
    /\ screen \in Viewports
    /\ stepped = <<>>
    /\ clock = 0
    /\ fired = 0
    /\ lateHit = FALSE
    /\ phase = "loop"
    /\ call = NoCall

Next == Frame

Spec == Init /\ [][Next]_vars

----------------------------------------------------------------------------
(* Runs of one function: the arguments are drawn in the initial state, the
   one step is the call *)

Idle(ph, c, ps) ==
    /\ particles = ps
    /\ bullets = <<>>
    /\ exploded = FALSE
    /\ initialized = FALSE
    /\ stepped = <<>>
    /\ clock = 0
    /\ fired = 0
    /\ lateHit = FALSE
    /\ phase = ph
    /\ call = c

(* generate_spherical_particles(center, count, radius) *)

GenCenters == {<<0, 0>>, <<400 * F, 320 * F>>, <<5 * F, 52 * F>>}
GenCounts == {0, 1, 2, 6, 7, 12, 13, 22, 100, PARTICLE_COUNT}
GenRadii == {0, 5, 6, 12, 59, BALLOON_RADIUS}

GenerateInit ==
    /\ screen \in {<<800, 800>>}
    /\ \E c \in GenCenters : \E n \in GenCounts : \E r \in GenRadii :
          Idle("generate", [center |-> c, count |-> n, radius |-> r], <<>>)

GenerateCall ==
    /\ phase = "generate"
    /\ particles' = Generate(call.center, call.count, call.radius)
    /\ phase' = "generated"
    /\ UNCHANGED <<bullets, exploded, initialized, screen, stepped, clock, fired,
                   lateHit, call>>

GenerateSpec == GenerateInit /\ [][GenerateCall]_vars

(* apply_spring_forces(particles) on a pair and a third particle out of reach *)

\* separations of the pair, in tenths of a pixel
PairOffsets == {-120, -80, -60, -48, -36, -30, -1, 0, 1, 30, 36, 48, 60, 80, 119}
PairVelocities == {ZERO, <<30 * F, -20 * F>>}
PairForces == {ZERO, GRAVITY}

PairAt(delta, va, vb, f) ==
    << [position |-> <<400 * F, 320 * F>>, velocity |-> va, force |-> f],
       [position |-> VAdd(<<400 * F, 320 * F>>, delta), velocity |-> vb, force |-> f],
       [position |-> <<500 * F, 320 * F>>, velocity |-> ZERO, force |-> f] >>

SpringInit ==
    /\ screen \in {<<800, 800>>}
    /\ \E dx \in PairOffsets : \E dy \in PairOffsets :
       \E va \in PairVelocities : \E vb \in PairVelocities : \E f \in PairForces :
          LET ps == PairAt(<<RDiv(dx * F, 10), RDiv(dy * F, 10)>>, va, vb, f)
          IN  Idle("spring", ps, ps)

SpringCall ==
    /\ phase = "spring"
    /\ particles' = ApplySpringForces(particles)
    /\ phase' = "sprung"
    /\ UNCHANGED <<bullets, exploded, initialized, screen, stepped, clock, fired,
                   lateHit, call>>

SpringSpec == SpringInit /\ [][SpringCall]_vars

(* Particle::update(dt) on one particle *)

UpdateHeights == {-100 * F, 0, 100 * F, 127 * F, 128 * F, 400 * F, 796 * F,
                  797 * F, 798 * F, 800 * F, 2000 * F}
UpdateSpeeds == {-3000 * F, -800 * F, -1, 0, 1, 10 * F, 800 * F, 3000 * F}
UpdateForces == {-9000 * F, 0, 500 * F, 9000 * F}
UpdateTimes == {0, 1, 5, 10}

UpdateInit ==
    /\ screen \in Viewports
    /\ \E y \in UpdateHeights : \E vy \in UpdateSpeeds : \E fy \in UpdateForces :
       \E dt \in UpdateTimes :
          Idle("update", [dt |-> dt],
               << [position |-> <<5 * F, y>>, velocity |-> <<10 * F, vy>>,
                   force |-> <<-20 * F, fy>>] >>)

UpdateCall ==
    /\ phase = "update"
    /\ particles' = [k \in DOMAIN particles |->
                        ParticleUpdate(particles[k], call.dt, ScreenH)]
    /\ phase' = "updated"
    /\ UNCHANGED <<bullets, exploded, initialized, screen, stepped, clock, fired,
                   lateHit, call>>

UpdateSpec == UpdateInit /\ [][UpdateCall]_vars

----------------------------------------------------------------------------
(* The frame loop's claims *)

\* C1: once exploded is true it is true in every later state, whatever
\* frames, clicks and overlaps follow.
RuptureOneWay == [][exploded => exploded']_vars

\* C1's case: the flag is set and a later frame saw a bullet overlap a particle
LateOverlapSeen == exploded /\ lateHit

\* C2: a frame that ends with exploded false leaves every particle as it
\* was (the first frame leaves the generated layout untouched); the frame
\* in which exploded becomes true already moves the particles.
RigidUntilRupture ==
    [][/\ (initialized /\ ~exploded') => particles' = particles
       /\ (~initialized /\ ~exploded') =>
              particles' = Generate(FieldCenter, FieldCount, BALLOON_RADIUS)
       /\ (initialized /\ ~exploded /\ exploded') => particles' # particles]_vars

\* C2's case: bullets have been fired and have flown for two frames or more,
\* and the field is still rigid
RigidFrameSeen ==
    /\ initialized /\ ~exploded
    /\ \E i \in DOMAIN bullets : bullets[i].age >= 2
    /\ \A k \in DOMAIN particles : particles[k].velocity = ZERO

\* C3: exploded goes from false to true in a frame exactly when, after the
\* bullets were stepped, a bullet whose active flag is true collides with a
\* particle.
RuptureOnlyByLive ==
    [][~exploded =>
         (exploded' <=> \E i \in DOMAIN stepped' :
                           /\ stepped'[i].active
                           /\ AnyCollides(stepped'[i], InitField(particles)))]_vars

\* C4: no bullet with an undefined velocity (the click on the launch origin)
\* is ever in the collection.
DegenerateFireRejected ==
    \A i \in DOMAIN bullets : ~IsNaNVec(bullets[i].velocity)

\* the bullet of C6: fired straight up in the 800 x 800 viewport
StraightUp(b) == screen = <<800, 800>> /\ b.velocity = <<0, -(BulletSpeed * F)>>

\* C6 as stated: once the frames applied to that bullet sum to 1.0 s it is
\* inactive and no longer in the collection.
GoneWithinOneSecond ==
    /\ \A i \in DOMAIN stepped :
          (StraightUp(stepped[i]) /\ stepped[i].age >= TimeDen) => ~stepped[i].active
    /\ \A i \in DOMAIN bullets :
          StraightUp(bullets[i]) => bullets[i].age < TimeDen

\* C6 amended: the bullet is inactive and out of the collection once the
\* frames applied to it sum to more than 1.0 s; at 1.0 s exactly it is at
\* y = 0, on the boundary, still active and still in the collection.
GoneAfterOneSecond ==
    /\ \A i \in DOMAIN stepped :
          StraightUp(stepped[i]) => (stepped[i].active <=> stepped[i].age <= TimeDen)
    /\ \A i \in DOMAIN bullets :
          StraightUp(bullets[i]) => bullets[i].age <= TimeDen
    /\ \A i \in DOMAIN stepped :
          (StraightUp(stepped[i]) /\ stepped[i].age <= TimeDen) =>
              \E j \in DOMAIN bullets : bullets[j] = stepped[i]

\* C6's case: the bullet has flown for more than a second and was dropped
\* in this frame
StraightUpDropped ==
    \E i \in DOMAIN stepped :
        /\ StraightUp(stepped[i]) /\ stepped[i].age > TimeDen
        /\ ~stepped[i].active
        /\ \A j \in DOMAIN bullets : bullets[j] # stepped[i]

InsideScreen(pos) ==
    /\ 0 <= pos[1] /\ pos[1] <= ScreenW
    /\ 0 <= pos[2] /\ pos[2] <= ScreenH

\* C10: at the end of every frame the collection holds active bullets only,
\* and a bullet fired at a target other than the launch origin is in it only
\* while it is inside the viewport, having moved away from the launch origin
\* by its speed times its age (to within a pixel): it is dropped in the
\* frame that takes it outside, at most diagonal / speed seconds after the
\* click.
EventualRemoval ==
    /\ \A i \in DOMAIN bullets :
          /\ bullets[i].active
          /\ ~IsNaNVec(bullets[i].velocity) =>
                /\ InsideScreen(bullets[i].position)
                /\ (Distance(bullets[i].position, LaunchOrigin) + F) * TimeDen
                       >= BulletSpeed * F * bullets[i].age
    /\ \A i \in DOMAIN stepped :
          stepped[i].active => \E j \in DOMAIN bullets : bullets[j] = stepped[i]

\* C10's case: a bullet fired at a target has left the viewport and was
\* dropped in the same frame
BulletDropped ==
    \E i \in DOMAIN stepped :
        /\ ~IsNaNVec(stepped[i].velocity)
        /\ ~stepped[i].active
        /\ \A j \in DOMAIN bullets : bullets[j] # stepped[i]

----------------------------------------------------------------------------
(* The functions' claims *)

\* C5: after generate with count >= 2 no two particles have the same
\* position.
NoTwoCoincide ==
    (phase = "generated" /\ call.count >= 2) =>
        \A i \in DOMAIN particles : \A j \in DOMAIN particles :
            i < j => particles[i].position # particles[j].position

InReach(a, b) ==
    LET d == Distance(a.position, b.position)
    IN  d * 100 > F /\ d < 2 * REST_LENGTH * F /\ a.velocity = b.velocity

\* C8: for a pair within the cutoff with no relative velocity, the force the
\* pass adds to each of the two points toward the other when they are
\* farther apart than REST_LENGTH, away from it when closer, and is zero at
\* REST_LENGTH.
SpringSign ==
    phase = "sprung" =>
        \A i \in {1, 2} :
            LET a == particles[i]
                b == particles[3 - i]
                toward == VSub(b.position, a.position)
                d == Length(toward)
                added == VSub(a.force, call[i].force)
            IN  InReach(a, b) =>
                    /\ d > REST_LENGTH * F => Dot(added, toward) > 0
                    /\ d < REST_LENGTH * F => Dot(added, toward) < 0
                    /\ d = REST_LENGTH * F => added = ZERO

\* C8's case: a stretched pair and a squeezed pair have been pulled and pushed
SpringPulled ==
    /\ phase = "sprung"
    /\ InReach(particles[1], particles[2])
    /\ Distance(particles[1].position, particles[2].position) > REST_LENGTH * F
    /\ particles[1].force # call[1].force

\* C7: after Particle::update, for every dt >= 0, position, velocity and
\* force, the particle's lower edge is not below the floor line.
GroundClamp ==
    phase = "updated" =>
        \A k \in DOMAIN particles :
            particles[k].position[2] + PARTICLE_RADIUS * F <= ScreenH

\* C7's case: the step took the particle below the floor and it was put back
\* on it, its vertical velocity reversed
ClampedOnFloor ==
    /\ phase = "updated"
    /\ call.dt > 0
    /\ particles[1].position[2] + PARTICLE_RADIUS * F = ScreenH
    /\ particles[1].velocity[2] < 0

\* C7 in the frame loop: at the end of every frame after the rupture no
\* particle is below the floor.
GroundClampInLoop ==
    (phase = "loop" /\ exploded) =>
        \A k \in DOMAIN particles :
            particles[k].position[2] + PARTICLE_RADIUS * F <= ScreenH

====
